---- MODULE Spec2Model ----
(***************************************************************************)
(* A model of igloo-ts: the fluent wrappers Buffer, Program, Texture and   *)
(* Framebuffer around a                                                    *)
(* WebGLRenderingContext.  The context is modelled by the state its entry  *)
(* points read and write (binding slots, buffer storage) and by the trace  *)
(* of entry points the last wrapper operation invoked.  The repository     *)
(* holds the wrappers twice, as one file (Igloo.ts, compiled to            *)
(* lib/igloo.js) and as one file per class; `copy` says which is loaded.   *)
(***************************************************************************)
EXTENDS Integers, Sequences, FiniteSets, TLC

(* ------------------------------ bounds -------------------------------- *)

\* Longest data array handed to Buffer.update.
MaxLen == 2

\* Number of wrapper operations in one run.
MaxSteps == 4

\* Number of Buffer objects constructed in one run.
MaxBuffers == 2

\* Number of Program operations in one run.
MaxCalls == 3

VARIABLES
    buffers,    \* the Buffer objects: sequence of [target, buffer, size]
    glBound,    \* context: binding target -> bound buffer handle (0 = none)
    glStore,    \* context: buffer handle -> data store [size, usage]
    hist,       \* per Buffer: probe counters of the calls its updates made
    programs,   \* the Program objects: sequence of [program, vars, probe]
    textures,   \* the Texture objects: sequence of [texture, format]
    framebuffers, \* the Framebuffer objects: [framebuffer, renderbuffer]
    gl,         \* context: the rest of its state (see GlFresh)
    copy,       \* which copy of the wrappers runs: "modular" or "monolithic"
    op,         \* the last wrapper operation and its arguments
    calls,      \* the context entry points the last operation invoked
    result,     \* how the last operation ended: "this" or the error thrown
    steps       \* operations performed so far

vars == <<buffers, glBound, glStore, hist, programs, textures, framebuffers,
          gl, copy, op, calls, result, steps>>

(* ------------------------- values and inputs -------------------------- *)

\* The two copies of the wrappers held by the repository.
Copies == {"modular", "monolithic"}

Targets == {"ARRAY_BUFFER", "ELEMENT_ARRAY_BUFFER"}

\* The `target` argument of the Buffer constructor; "null" is an absent one.
TargetArgs == Targets \cup {"null"}

\* The `usage` argument of update; "null" is an absent one.
UsageArgs == {"null", "STATIC_DRAW", "DYNAMIC_DRAW"}

\* Data handed to update: a plain Array of numbers, typed-array views or a
\* raw ArrayBuffer; len is the element count (bytes for an ArrayBuffer).
DataKinds == {"Array", "Float32Array", "Uint16Array"}
DataArgs == [kind : DataKinds, len : 0 .. MaxLen]

\* BYTES_PER_ELEMENT of the binary kinds.
BytesPerElement(kind) ==
    CASE kind = "Float32Array" -> 4
      [] kind = "Uint16Array" -> 2
      [] kind = "ArrayBuffer" -> 1

\* data.byteLength; a plain Array has none and never gets here.
ByteLength(d) == d.len * BytesPerElement(d.kind)

\* new Float32Array(data): one 32-bit float per element of the Array.
ToFloat32Array(d) == [kind |-> "Float32Array", len |-> d.len]

\* if (data instanceof Array) data = new Float32Array(data)
UpdateData(data) == IF data.kind = "Array" THEN ToFloat32Array(data) ELSE data

\* usage == null ? gl.DYNAMIC_DRAW : usage
UpdateUsage(usage) == IF usage = "null" THEN "DYNAMIC_DRAW" ELSE usage

\* A mutant of NeedsBufferData: a change of usage hint reallocates too.
NeedsBufferDataOnUsage(size, data, usage, stored) ==
    size # ByteLength(data) \/ stored # usage

\* A mutant of NeedsBufferData: the size test is negated.
NeedsBufferDataNegated(size, data, usage, stored) == size = ByteLength(data)

\* this.size !== data.byteLength (usage and the store's hint play no part)
NeedsBufferData(size, data, usage, stored) == size # ByteLength(data)

\* A mutant of SizeAfterBufferData: the cached size is left alone.
SizeAfterBufferDataStale(size, data) == size

\* this.size = data.byteLength
SizeAfterBufferData(size, data) == ByteLength(data)

\* this.size = -1, the sentinel of a Buffer that was never uploaded
UnsetSize == -1

\* target == null ? gl.ARRAY_BUFFER : target
BufferTarget(target) == IF target = "null" THEN "ARRAY_BUFFER" ELSE target

\* The probe counters of one Buffer.
\*   updates        update calls so far
\*   lastLen        byte length of the data of the most recent update
\*   nData, nSub    bufferData / bufferSubData calls issued by its updates
\*   runLen         length of the current run of updates of equal byte length
\*   runData,runSub bufferData / bufferSubData calls issued within that run
NoHist == [updates |-> 0, lastLen |-> UnsetSize, nData |-> 0, nSub |-> 0,
           runLen |-> 0, runData |-> 0, runSub |-> 0]

HistAfter(h, len, realloc) ==
    LET same == h.updates > 0 /\ h.lastLen = len
        d == IF realloc THEN 1 ELSE 0
        s == IF realloc THEN 0 ELSE 1
    IN [updates |-> h.updates + 1, lastLen |-> len,
        nData |-> h.nData + d, nSub |-> h.nSub + s,
        runLen |-> IF same THEN h.runLen + 1 ELSE 1,
        runData |-> IF same THEN h.runData + d ELSE d,
        runSub |-> IF same THEN h.runSub + s ELSE s]

(* --------------------------- the context ------------------------------ *)

\* gl.createBuffer(): a fresh handle with no data store.
NoStore == [size |-> UnsetSize, usage |-> "null"]

\* The texture units of the context that are put to use.
Units == {0, 1}

\* A texture without an image; the images texImage2D and copyTexImage2D
\* give it.
NoImage == <<>>

\* The state of a context nothing was done to, beside its buffers:
\*   program       the program in use (0 = none)
\*   error         the error flag gl.getError reports and clears
\*   programs, shaders   program and shader handles created so far
\*   unit          the active texture unit
\*   texture       texture unit -> the texture bound to its TEXTURE_2D
\*                 (0 = none)
\*   image         texture handle -> the image it was last given
\*   textureCount  texture handles created so far
\*   framebuffer   the framebuffer bound to FRAMEBUFFER (0 = the default)
\*   framebufferCount  framebuffer handles created so far
\*   renderbuffer  the renderbuffer bound to RENDERBUFFER (0 = none)
\*   storage       renderbuffer handle -> its storage (<<>> = none)
\*   depth         framebuffer handle -> its depth attachment (0 = none)
\*   color         framebuffer handle -> its colour attachment (0 = none)
GlFresh ==
    [program |-> 0, error |-> "NO_ERROR", programs |-> 0, shaders |-> 0,
     unit |-> 0, texture |-> [u \in Units |-> 0], textureCount |-> 0,
     image |-> <<>>,
     framebuffer |-> 0, framebufferCount |-> 0,
     renderbuffer |-> 0, storage |-> <<>>, depth |-> <<>>, color |-> <<>>]

\* A mutant of GlBindBuffer: a bound buffer stays bound.
GlBindBufferOnce(bound, target, buffer) ==
    IF bound[target] = 0 THEN [bound EXCEPT ![target] = buffer] ELSE bound

\* gl.bindBuffer(target, buffer)
GlBindBuffer(bound, target, buffer) == [bound EXCEPT ![target] = buffer]

\* gl.bufferData(target, data, usage): a new data store for the buffer bound
\* to target.
GlBufferData(store, bound, target, data, usage) ==
    [store EXCEPT ![bound[target]] =
        [size |-> ByteLength(data), usage |-> usage]]

(* --------------------------- Buffer ----------------------------------- *)

\* new Buffer(gl, target)
NewBuffer(target) ==
    /\ steps < MaxSteps
    /\ Len(buffers) < MaxBuffers
    /\ LET handle == Len(glStore) + 1
       IN /\ buffers' = Append(buffers,
                [target |-> BufferTarget(target), buffer |-> handle,
                 size |-> UnsetSize])
          /\ glStore' = Append(glStore, NoStore)
          /\ hist' = Append(hist, NoHist)
          /\ op' = [name |-> "Buffer", self |-> Len(buffers) + 1,
                    target |-> target]
          /\ calls' = << <<"createBuffer">> >>
    /\ result' = "this"
    /\ steps' = steps + 1
    /\ UNCHANGED <<glBound, programs, copy, textures, framebuffers, gl>>

\* Buffer.bind()
BufferBind(b) ==
    /\ steps < MaxSteps
    /\ glBound' = GlBindBuffer(glBound, buffers[b].target, buffers[b].buffer)
    /\ op' = [name |-> "bind", self |-> b]
    /\ calls' = << <<"bindBuffer", buffers[b].target, buffers[b].buffer>> >>
    /\ result' = "this"
    /\ steps' = steps + 1
    /\ UNCHANGED <<buffers, glStore, hist, programs, copy, textures,
                   framebuffers, gl>>

\* Buffer.update(data, usage)
BufferUpdate(b, data, usage) ==
    LET this == buffers[b]
        d == UpdateData(data)
        u == UpdateUsage(usage)
        bound == GlBindBuffer(glBound, this.target, this.buffer)
        realloc == NeedsBufferData(this.size, d, u,
                                   glStore[this.buffer].usage)
    IN /\ steps < MaxSteps
       /\ glBound' = bound
       /\ IF realloc
          THEN /\ glStore' = GlBufferData(glStore, bound, this.target, d, u)
               /\ buffers' = [buffers EXCEPT
                     ![b].size = SizeAfterBufferData(this.size, d)]
               /\ calls' = << <<"bindBuffer", this.target, this.buffer>>,
                              <<"bufferData", this.target, d, u>> >>
          ELSE /\ UNCHANGED <<glStore, buffers>>
               /\ calls' = << <<"bindBuffer", this.target, this.buffer>>,
                              <<"bufferSubData", this.target, 0, d>> >>
       /\ hist' = [hist EXCEPT ![b] = HistAfter(hist[b], ByteLength(d), realloc)]
       /\ op' = [name |-> "update", self |-> b, data |-> data,
                 usage |-> usage, size |-> this.size,
                 prevLen |-> hist[b].lastLen,
                 stored |-> glStore[this.buffer].usage,
                 bound |-> glBound[this.target]]
       /\ result' = "this"
       /\ steps' = steps + 1
       /\ UNCHANGED <<programs, copy, textures, framebuffers, gl>>

(* --------------------------- Program: values --------------------------- *)

\* The names the application passes to uniform, matrix and attrib.  In the
\* linked program "tint" is an active uniform, "position" an active
\* attribute and "ghost" neither.
Names == {"tint", "position", "ghost"}
ActiveUniforms == {"tint"}
ActiveAttribs == {"position"}

\* What a slot of the cache this.vars holds: nothing (undefined), null, a
\* WebGLUniformLocation or a number.
Undefined == [t |-> "undefined", v |-> 0]
Null == [t |-> "null", v |-> 0]
Location(program) == [t |-> "location", v |-> program]
Number(n) == [t |-> "number", v |-> n]

\* x == null
IsNullish(x) == x.t \in {"undefined", "null"}

\* gl.getUniformLocation(program, name): null for a name that is no active
\* uniform of the program.
GlGetUniformLocation(program, name) ==
    IF name \in ActiveUniforms THEN Location(program) ELSE Null

\* gl.getAttribLocation(program, name): -1 for a name that is no active
\* attribute of the program.
GlGetAttribLocation(program, name) ==
    IF name \in ActiveAttribs THEN Number(0) ELSE Number(-1)

\* The uniform-setting entry points of a WebGLRenderingContext.
GlUniformMethods ==
    {"uniform1f", "uniform2f", "uniform3f", "uniform4f",
     "uniform1i", "uniform2i", "uniform3i", "uniform4i",
     "uniform1fv", "uniform2fv", "uniform3fv", "uniform4fv",
     "uniform1iv", "uniform2iv", "uniform3iv", "uniform4iv",
     "uniformMatrix2fv", "uniformMatrix3fv", "uniformMatrix4fv"}

\* The `value` argument of uniform.  n is the length of an Array or typed
\* array, the value of a number and 0/1 for false/true; "absent" is an
\* omitted argument, "object" is {}, "DataView" a view that is no array.
ArrayKinds == {"Array", "Float32Array"}
UniformLens == 0 .. 5
ValueArgs ==
    [kind : ArrayKinds, n : UniformLens]
    \cup [kind : {"number", "boolean"}, n : {0, 1}]
    \cup [kind : {"absent", "null", "object", "DataView"}, n : {0}]

\* The `matrix` argument of matrix: n elements.
MatrixLens == {2, 4, 9, 16}
MatrixArgs == [kind : ArrayKinds, n : MatrixLens]

\* The `transpose` argument of matrix; "absent" is an omitted one.
TransposeArgs == {"absent", "true"}

\* The `size` and `stride` arguments of attrib; <<>> is an absent stride.
SizeArgs == {2, 3}
StrideArgs == {<<>>, <<16>>}

\* The kinds of value that are views of an ArrayBuffer.
ViewKinds == {"Float32Array", "Uint16Array", "DataView"}

\* Object.prototype.toString.apply(object, [])
ToStringTag(value) ==
    "[object " \o
    (CASE value.kind = "number" -> "Number"
       [] value.kind = "boolean" -> "Boolean"
       [] value.kind = "string" -> "String"
       [] value.kind = "object" -> "Object"
       [] OTHER -> value.kind) \o "]"

\* The strings the expression
\*   / (Float(32|64)|Int(16|32|8)|Uint(16|32|8(Clamped)?))?Array]$/
\* matches among the tags of ToStringTag.
ArrayTags ==
    {"[object " \o prefix \o "Array]" :
        prefix \in {"", "Float32", "Float64", "Int16", "Int32", "Int8",
                    "Uint16", "Uint32", "Uint8", "Uint8Clamped"}}

\* Igloo.isArray(object)
IsArray(value) == ToStringTag(value) \in ArrayTags

\* typeof value
TypeOf(value) ==
    CASE value.kind \in {"number", "boolean", "string"} -> value.kind
      [] value.kind = "absent" -> "undefined"
      [] OTHER -> "object"

\* value == null, after the default `value = null` of an omitted argument
IsAbsent(value) == value.kind \in {"absent", "null"}

\* A mutant of UniformVectorMethod: the i flag is ignored.
UniformVectorMethodFloat(value, i) == "uniform" \o ToString(value.n) \o "fv"

\* "uniform" + value.length + (i ? "i" : "f") + "v"
UniformVectorMethod(value, i) ==
    "uniform" \o ToString(value.n) \o (IF i THEN "i" ELSE "f") \o "v"

\* if (i) gl.uniform1i else gl.uniform1f
UniformScalarMethod(i) == IF i THEN "uniform1i" ELSE "uniform1f"

\* A mutant of IsSupportedScalar: an object value is let through.
IsSupportedScalarOrObject(value) ==
    TypeOf(value) \in {"number", "boolean", "object"}

\* typeof value === "number" || typeof value === "boolean"
IsSupportedScalar(value) == TypeOf(value) \in {"number", "boolean"}

\* ArrayBuffer.isView(matrix) in the modular copy; in the monolithic copy
\* typeof matrix === "ArrayBufferView", which no value satisfies.
IsArrayBufferView(c, matrix) ==
    IF c = "modular" THEN matrix.kind \in ViewKinds ELSE FALSE

\* matrix.byteLength of a view, matrix.length of anything else
MatrixLength(c, matrix) ==
    IF IsArrayBufferView(c, matrix)
    THEN ByteLength([kind |-> matrix.kind, len |-> matrix.n])
    ELSE matrix.n

\* The largest r with r * r <= n.
Floor2(n) == CHOOSE r \in 0 .. n : r * r <= n /\ (r + 1) * (r + 1) > n

\* The string of Math.sqrt(n): the decimal of the root, which has a
\* fraction unless n is a perfect square.
SqrtString(n) ==
    IF Floor2(n) * Floor2(n) = n
    THEN ToString(Floor2(n))
    ELSE ToString(Floor2(n)) \o ".fraction"

\* A mutant of MatrixMethod: the dimension is the length itself.
MatrixMethodNoSqrt(length) == "uniformMatrix" \o ToString(length) \o "fv"

\* "uniformMatrix" + Math.sqrt(length) + "fv"
MatrixMethod(length) == "uniformMatrix" \o SqrtString(length) \o "fv"

\* Boolean(transpose), after the default `transpose = false`
MatrixTranspose(transpose) == transpose = "true"

\* The probe of one name of one Program: the location/index queries issued
\* for it, the uniform, matrix and attrib calls made with it, and the kind
\* of query that resolved its entry of the cache ("none" before any).
NoProbe == [queries |-> 0, uniform |-> 0, matrix |-> 0, attrib |-> 0,
            resolved |-> "none"]

\* A Program past its constructor: the handle, an empty cache.
NewProgram(handle) ==
    [program |-> handle,
     vars |-> [n \in Names |-> Undefined],
     probe |-> [n \in Names |-> NoProbe]]

(* --------------------------- Program ---------------------------------- *)

\* A mutant of GlRaise: the latest call decides the flag.
GlRaiseLatest(flag, error) == error

\* The values gl.getError reports.
GlErrors == {"NO_ERROR", "INVALID_ENUM", "INVALID_VALUE", "INVALID_OPERATION"}

\* The error flag after a call that generated `error` (NO_ERROR: none):
\* a flag already set is kept until gl.getError reads it.
GlRaise(flag, error) == IF flag = "NO_ERROR" THEN error ELSE flag

\* The error gl.uniform* generates: the location must be one of the program
\* in use; a null location is ignored.
GlUniformError(g, location) ==
    IF location.t = "location" /\ location.v # g.program
    THEN "INVALID_OPERATION"
    ELSE "NO_ERROR"

\* The error gl.enableVertexAttribArray(index) and gl.vertexAttribPointer(
\* index, ...) generate.
GlAttribError(index) ==
    IF index.t = "number" /\ index.v < 0 THEN "INVALID_VALUE" ELSE "NO_ERROR"

\* A mutant of CacheMiss: the cache is never filled on demand.
CacheMissNever(cached) == FALSE

\* if (this.vars[name] == null): the cache holds nothing usable for name
CacheMiss(cached) == IsNullish(cached)

\* The probe of a name after one more call of `kind`, which issued a
\* location/index query or not.
ProbeAfter(pr, kind, queried) ==
    [pr EXCEPT ![kind] = @ + 1,
               !.queries = @ + (IF queried THEN 1 ELSE 0),
               !.resolved = IF ~queried THEN @
                            ELSE IF kind = "attrib" THEN "attrib"
                            ELSE "uniform"]

\* Program.uniform(name, value, i)
ProgramUniform(p, name, value, i) ==
    LET this == programs[p]
        queried == IsAbsent(value) \/ CacheMiss(this.vars[name])
        vars1 == IF queried
                 THEN [this.vars EXCEPT
                        ![name] = GlGetUniformLocation(this.program, name)]
                 ELSE this.vars
        query == IF queried
                 THEN << <<"getUniformLocation", this.program, name>> >>
                 ELSE <<>>
        v == vars1[name]
        method == IF IsArray(value) THEN UniformVectorMethod(value, i)
                  ELSE UniformScalarMethod(i)
        uploaded == [gl EXCEPT !.error = GlRaise(@, GlUniformError(gl, v))]
    IN /\ steps < MaxCalls
       /\ programs' = [programs EXCEPT
             ![p].vars = vars1,
             ![p].probe[name] = ProbeAfter(@, "uniform", queried)]
       /\ CASE IsAbsent(value) ->
                 /\ calls' = query
                 /\ result' = "this"
                 /\ UNCHANGED gl
            [] ~IsAbsent(value) /\ IsArray(value) ->
                 IF method \in GlUniformMethods
                 THEN /\ calls' = query \o << <<method, v, value>> >>
                      /\ result' = "this"
                      /\ gl' = uploaded
                 ELSE /\ calls' = query
                      /\ result' = "TypeError"
                      /\ UNCHANGED gl
            [] ~IsAbsent(value) /\ ~IsArray(value)
                  /\ IsSupportedScalar(value) ->
                 /\ calls' = query \o << <<method, v, value>> >>
                 /\ result' = "this"
                 /\ gl' = uploaded
            [] OTHER ->
                 /\ calls' = query
                 /\ result' = "InvalidUniformValue"
                 /\ UNCHANGED gl
       /\ op' = [name |-> "uniform", self |-> p, var |-> name,
                 value |-> value, i |-> i, cached |-> this.vars[name]]
       /\ steps' = steps + 1
       /\ UNCHANGED <<buffers, glBound, glStore, hist, copy, textures,
                      framebuffers>>

\* Program.matrix(name, matrix, transpose)
ProgramMatrix(p, name, matrix, transpose) ==
    LET this == programs[p]
        queried == CacheMiss(this.vars[name])
        vars1 == IF queried
                 THEN [this.vars EXCEPT
                        ![name] = GlGetUniformLocation(this.program, name)]
                 ELSE this.vars
        query == IF queried
                 THEN << <<"getUniformLocation", this.program, name>> >>
                 ELSE <<>>
        method == MatrixMethod(MatrixLength(copy, matrix))
    IN /\ steps < MaxCalls
       /\ programs' = [programs EXCEPT
             ![p].vars = vars1,
             ![p].probe[name] = ProbeAfter(@, "matrix", queried)]
       /\ IF method \in GlUniformMethods
          THEN /\ calls' = query \o << <<method, vars1[name],
                                         MatrixTranspose(transpose), matrix>> >>
               /\ result' = "this"
               /\ gl' = [gl EXCEPT !.error =
                            GlRaise(@, GlUniformError(gl, vars1[name]))]
          ELSE /\ calls' = query
               /\ result' = "TypeError"
               /\ UNCHANGED gl
       /\ op' = [name |-> "matrix", self |-> p, var |-> name,
                 matrix |-> matrix, transpose |-> transpose,
                 cached |-> this.vars[name]]
       /\ steps' = steps + 1
       /\ UNCHANGED <<buffers, glBound, glStore, hist, copy, textures,
                      framebuffers>>

\* Program.attrib(name, value, size, stride); value 0 is an absent buffer
ProgramAttrib(p, name, value, size, stride) ==
    LET this == programs[p]
        queried == value = 0 \/ CacheMiss(this.vars[name])
        vars1 == IF queried
                 THEN [this.vars EXCEPT
                        ![name] = GlGetAttribLocation(this.program, name)]
                 ELSE this.vars
        query == IF queried
                 THEN << <<"getAttribLocation", this.program, name>> >>
                 ELSE <<>>
    IN /\ steps < MaxCalls
       /\ programs' = [programs EXCEPT
             ![p].vars = vars1,
             ![p].probe[name] = ProbeAfter(@, "attrib", queried)]
       /\ IF value = 0
          THEN /\ calls' = query
               /\ UNCHANGED <<glBound, gl>>
          ELSE /\ glBound' = GlBindBuffer(glBound, buffers[value].target,
                                          buffers[value].buffer)
               /\ gl' = [gl EXCEPT !.error =
                            GlRaise(@, GlAttribError(vars1[name]))]
               /\ calls' = query \o
                    << <<"bindBuffer", buffers[value].target,
                         buffers[value].buffer>>,
                       <<"enableVertexAttribArray", vars1[name]>>,
                       <<"vertexAttribPointer", vars1[name], size, "FLOAT",
                         FALSE, IF stride = <<>> THEN 0 ELSE stride[1], 0>> >>
       /\ result' = "this"
       /\ op' = [name |-> "attrib", self |-> p, var |-> name,
                 value |-> value, size |-> size, stride |-> stride,
                 cached |-> this.vars[name]]
       /\ steps' = steps + 1
       /\ UNCHANGED <<buffers, glStore, hist, copy, textures, framebuffers>>

\* A mutant of IsNumber: every entry of the cache counts as an index.
IsNotUndefined(location) == location.t # "undefined"

\* typeof location === "number"
IsNumber(location) == location.t = "number"

\* The error gl.disableVertexAttribArray(index) generates.
GlDisableError(index) == IF index.v < 0 THEN "INVALID_VALUE" ELSE "NO_ERROR"

RECURSIVE GlRaiseAll(_, _)
\* The error flag after calls that generated the errors of a sequence.
GlRaiseAll(flag, errors) ==
    IF errors = <<>> THEN flag
    ELSE GlRaiseAll(GlRaise(flag, Head(errors)), Tail(errors))

\* The orders in which a for-in loop may visit the names of a set.
Orders(S) ==
    {s \in [1 .. Cardinality(S) -> S] :
        \A j, k \in 1 .. Cardinality(S) : s[j] = s[k] => j = k}

\* Every order of every set of names.
DisableOrders == UNION {Orders(S) : S \in SUBSET Names}

\* Program.disable(); `disabled` is the names the loop passes to the
\* context, in the order the loop visits them
ProgramDisable(p, disabled) ==
    LET this == programs[p]
    IN /\ steps < MaxCalls
       /\ disabled \in Orders({n \in Names : IsNumber(this.vars[n])})
       /\ calls' = [k \in 1 .. Len(disabled) |->
                       <<"disableVertexAttribArray", this.vars[disabled[k]]>>]
       /\ gl' = [gl EXCEPT !.error = GlRaiseAll(@,
                    [k \in 1 .. Len(disabled) |->
                        GlDisableError(this.vars[disabled[k]])])]
       /\ result' = "this"
       /\ op' = [name |-> "disable", self |-> p, disabled |-> disabled,
                 before |-> this.vars]
       /\ steps' = steps + 1
       /\ UNCHANGED <<buffers, glBound, glStore, hist, programs, copy,
                      textures, framebuffers>>

(* ---------------------- Program: construction ------------------------- *)

\* Shader sources handed to the constructor: one the compiler accepts and
\* two it rejects.
ShaderSources == {"void main(){}", "void main(){", "main"}

\* gl.getShaderParameter(shader, gl.COMPILE_STATUS) after compileShader
GlCompileStatus(source) == source = "void main(){}"

\* gl.getShaderInfoLog(shader): the compiler's text on this stage and source
GlShaderInfoLog(type, source) == "ERROR: " \o type \o ": " \o source

\* gl.getProgramInfoLog(program): the linker's text
GlProgramInfoLog(program) == "LINK ERROR: program " \o ToString(program)

\* throw new Error(message)
Thrown(message) == "Error: " \o message

\* A mutant of ShaderThrows: a failed compile is not noticed.
ShaderNeverThrows(status) == FALSE

\* makeShader: the branch that throws, taken on a false COMPILE_STATUS
ShaderThrows(status) == ~status

\* A mutant of LinkThrows: a failed link is not noticed.
LinkNeverThrows(status) == FALSE

\* the constructor's branch that throws: if (!getProgramParameter(...))
LinkThrows(status) == ~status

\* makeShader(type, source), the context handing out `shader`: the calls
\* it issues, and the object it returns or the message it throws
MakeShader(type, source, shader) ==
    LET status == GlCompileStatus(source)
        head == << <<"createShader", type>>,
                   <<"shaderSource", shader, source>>,
                   <<"compileShader", shader>>,
                   <<"getShaderParameter", shader, "COMPILE_STATUS">> >>
    IN IF ShaderThrows(status)
       THEN [calls |-> head \o << <<"getShaderInfoLog", shader>> >>,
             threw |-> TRUE,
             message |-> GlShaderInfoLog(type, source)]
       ELSE [calls |-> head, threw |-> FALSE, message |-> ""]

\* new Program(gl, vertex, fragment); linked is the LINK_STATUS the context
\* reports for the two stages
ProgramConstruct(vertex, fragment, linked) ==
    LET p == gl.programs + 1
        vs == MakeShader("VERTEX_SHADER", vertex, gl.shaders + 1)
        fs == MakeShader("FRAGMENT_SHADER", fragment, gl.shaders + 2)
        create == << <<"createProgram">> >>
        attachV == << <<"attachShader", p, gl.shaders + 1>> >>
        attachF == << <<"attachShader", p, gl.shaders + 2>> >>
        link == << <<"linkProgram", p>>,
                   <<"getProgramParameter", p, "LINK_STATUS">> >>
    IN /\ steps < MaxSteps
       /\ CASE vs.threw ->
                 /\ calls' = create \o vs.calls
                 /\ result' = Thrown(vs.message)
                 /\ gl' = [gl EXCEPT !.programs = p, !.shaders = @ + 1]
                 /\ UNCHANGED programs
            [] ~vs.threw /\ fs.threw ->
                 /\ calls' = create \o vs.calls \o attachV \o fs.calls
                 /\ result' = Thrown(fs.message)
                 /\ gl' = [gl EXCEPT !.programs = p, !.shaders = @ + 2]
                 /\ UNCHANGED programs
            [] ~vs.threw /\ ~fs.threw /\ LinkThrows(linked) ->
                 /\ calls' = create \o vs.calls \o attachV \o fs.calls
                               \o attachF \o link
                               \o << <<"getProgramInfoLog", p>> >>
                 /\ result' = Thrown(GlProgramInfoLog(p))
                 /\ gl' = [gl EXCEPT !.programs = p, !.shaders = @ + 2]
                 /\ UNCHANGED programs
            [] OTHER ->
                 /\ calls' = create \o vs.calls \o attachV \o fs.calls
                               \o attachF \o link
                 /\ result' = "this"
                 /\ gl' = [gl EXCEPT !.programs = p, !.shaders = @ + 2]
                 /\ programs' = Append(programs, NewProgram(p))
       /\ op' = [name |-> "new Program", vertex |-> vertex,
                 fragment |-> fragment, linked |-> linked]
       /\ steps' = steps + 1
       /\ UNCHANGED <<buffers, glBound, glStore, hist, copy, textures,
                      framebuffers>>

(* -------------------------- Program: draw ----------------------------- *)

\* Arguments of draw: a primitive mode the context knows and a number that
\* is none; a count and a negative one; an index type omitted, null, one
\* the context accepts for indices and one it does not.
ModeArgs == {"TRIANGLES", "7"}
CountArgs == {-1, 3}
TypeArgs == {"absent", "null", "UNSIGNED_SHORT", "FLOAT"}

\* The error gl.drawArrays / gl.drawElements generates.
GlDrawError(program, mode, count, indexed, type) ==
    CASE mode # "TRIANGLES" -> "INVALID_ENUM"
      [] mode = "TRIANGLES" /\ indexed /\ type # "UNSIGNED_SHORT" ->
            "INVALID_ENUM"
      [] mode = "TRIANGLES" /\ (indexed => type = "UNSIGNED_SHORT")
            /\ count < 0 -> "INVALID_VALUE"
      [] mode = "TRIANGLES" /\ (indexed => type = "UNSIGNED_SHORT")
            /\ count >= 0 /\ program = 0 -> "INVALID_OPERATION"
      [] OTHER -> "NO_ERROR"

\* A mutant of DrawIndexed: an explicit null counts as an index type.
DrawIndexedUnlessOmitted(type) == type # "absent"

\* draw: !(type == null), after the default `type = null`
DrawIndexed(type) == type \notin {"absent", "null"}

\* A mutant of DrawFails: the reported error is ignored.
DrawFailsNever(reported) == FALSE

\* draw: gl.getError() !== gl.NO_ERROR
DrawFails(reported) == reported # "NO_ERROR"

\* Program.use()
ProgramUse(p) ==
    /\ steps < MaxSteps
    /\ gl' = [gl EXCEPT !.program = programs[p].program]
    /\ calls' = << <<"useProgram", programs[p].program>> >>
    /\ result' = "this"
    /\ op' = [name |-> "use", self |-> p]
    /\ steps' = steps + 1
    /\ UNCHANGED <<buffers, glBound, glStore, hist, programs, copy, textures,
                   framebuffers>>

\* Program.draw(mode, count, type)
ProgramDraw(p, mode, count, type) ==
    LET indexed == DrawIndexed(type)
        drawCall == IF indexed
                    THEN <<"drawElements", mode, count, type, 0>>
                    ELSE <<"drawArrays", mode, 0, count>>
        reported == GlRaise(gl.error,
                        GlDrawError(gl.program, mode, count, indexed, type))
    IN /\ steps < MaxSteps
       /\ calls' = << drawCall, <<"getError">> >>
       /\ gl' = [gl EXCEPT !.error = "NO_ERROR"]
       /\ result' = IF DrawFails(reported)
                     THEN Thrown("WebGL rendering error")
                     ELSE "this"
       /\ op' = [name |-> "draw", self |-> p, mode |-> mode, count |-> count,
                 type |-> type, pending |-> gl.error, reported |-> reported]
       /\ steps' = steps + 1
       /\ UNCHANGED <<buffers, glBound, glStore, hist, programs, copy,
                      textures, framebuffers>>

(* --------------------------- Framebuffer ------------------------------ *)

\* Widths and heights passed to attachDepth.
DimArgs == {1, 2}

\* A renderbuffer without storage; the storage renderbufferStorage gives.
NoStorage == <<>>
Storage(format, width, height) == <<format, width, height>>

\* gl.createFramebuffer(): the context after it; the handle is its
\* framebufferCount
GlCreateFramebuffer(g) ==
    [g EXCEPT !.framebufferCount = @ + 1,
              !.depth = Append(@, 0), !.color = Append(@, 0)]

\* gl.createRenderbuffer(): the context after it; the handle is the length
\* of its storage
GlCreateRenderbuffer(g) == [g EXCEPT !.storage = Append(@, NoStorage)]

\* gl.renderbufferStorage(RENDERBUFFER, format, width, height): acts on the
\* renderbuffer bound to RENDERBUFFER
GlRenderbufferStorage(g, format, width, height) ==
    IF g.renderbuffer = 0
    THEN [g EXCEPT !.error = GlRaise(@, "INVALID_OPERATION")]
    ELSE [g EXCEPT !.storage[g.renderbuffer] = Storage(format, width, height)]

\* gl.framebufferRenderbuffer(FRAMEBUFFER, DEPTH_ATTACHMENT, RENDERBUFFER,
\* renderbuffer): acts on the framebuffer bound to FRAMEBUFFER
GlFramebufferRenderbuffer(g, renderbuffer) ==
    IF g.framebuffer = 0
    THEN [g EXCEPT !.error = GlRaise(@, "INVALID_OPERATION")]
    ELSE [g EXCEPT !.depth[g.framebuffer] = renderbuffer]

\* gl.framebufferTexture2D(FRAMEBUFFER, COLOR_ATTACHMENT0, TEXTURE_2D,
\* texture, 0)
GlFramebufferTexture2D(g, texture) ==
    IF g.framebuffer = 0
    THEN [g EXCEPT !.error = GlRaise(@, "INVALID_OPERATION")]
    ELSE [g EXCEPT !.color[g.framebuffer] = texture]

\* A mutant of GlBindFramebuffer: a bound framebuffer stays bound.
GlBindFramebufferOnce(g, framebuffer) ==
    IF g.framebuffer = 0 THEN [g EXCEPT !.framebuffer = framebuffer] ELSE g

\* gl.bindFramebuffer(FRAMEBUFFER, framebuffer); 0 is null, the default
GlBindFramebuffer(g, framebuffer) == [g EXCEPT !.framebuffer = framebuffer]

\* A mutant of WrapsHandle: the test is on the value, not on the count.
WrapsHandleUnlessNull(args) == args # <<>> /\ args[1] # 0

\* arguments.length == 2, of new Framebuffer(gl, ...args)
WrapsHandle(args) == 1 + Len(args) = 2

\* A mutant of NeedsRenderbuffer: every attachDepth creates one.
NeedsRenderbufferAlways(renderbuffer) == TRUE

\* this.renderbuffer == null
NeedsRenderbuffer(renderbuffer) == renderbuffer = 0

\* new Framebuffer(gl, ...args) on context g: the object, the calls and
\* the context after. Handle 0 is null. created and dims are a probe: the
\* createRenderbuffer calls made for the object, the dimensions of the
\* attachDepth that made the first.
FramebufferOf(g, args) ==
    IF WrapsHandle(args)
    THEN [object |-> [framebuffer |-> args[1], renderbuffer |-> 0,
                      created |-> 0, dims |-> <<>>],
          calls |-> <<>>, gl |-> g]
    ELSE [object |-> [framebuffer |-> g.framebufferCount + 1,
                      renderbuffer |-> 0, created |-> 0, dims |-> <<>>],
          calls |-> << <<"createFramebuffer">> >>,
          gl |-> GlCreateFramebuffer(g)]

\* new Framebuffer(gl, ...args)
NewFramebuffer(args) ==
    LET made == FramebufferOf(gl, args)
    IN /\ steps < MaxSteps
       /\ framebuffers' = Append(framebuffers, made.object)
       /\ gl' = made.gl
       /\ calls' = made.calls
       /\ result' = "this"
       /\ op' = [name |-> "new Framebuffer", args |-> args,
                 count |-> gl.framebufferCount]
       /\ steps' = steps + 1
       /\ UNCHANGED <<buffers, glBound, glStore, hist, programs, copy,
                      textures>>

\* new Igloo(gl), gl a WebGLRenderingContext: its defaultFramebuffer
NewIgloo ==
    LET made == FramebufferOf(gl, <<0>>)
    IN /\ steps < MaxSteps
       /\ framebuffers' = Append(framebuffers, made.object)
       /\ gl' = made.gl
       /\ calls' = made.calls
       /\ result' = "this"
       /\ op' = [name |-> "new Igloo", count |-> gl.framebufferCount]
       /\ steps' = steps + 1
       /\ UNCHANGED <<buffers, glBound, glStore, hist, programs, copy,
                      textures>>

\* Framebuffer.bind()
FramebufferBind(f) ==
    /\ steps < MaxSteps
    /\ gl' = GlBindFramebuffer(gl, framebuffers[f].framebuffer)
    /\ calls' = << <<"bindFramebuffer", "FRAMEBUFFER",
                     framebuffers[f].framebuffer>> >>
    /\ result' = "this"
    /\ op' = [name |-> "bind", self |-> f]
    /\ steps' = steps + 1
    /\ UNCHANGED <<buffers, glBound, glStore, hist, programs, copy, textures,
                   framebuffers>>

\* Framebuffer.unbind()
FramebufferUnbind(f) ==
    /\ steps < MaxSteps
    /\ gl' = GlBindFramebuffer(gl, 0)
    /\ calls' = << <<"bindFramebuffer", "FRAMEBUFFER", 0>> >>
    /\ result' = "this"
    /\ op' = [name |-> "unbind", self |-> f]
    /\ steps' = steps + 1
    /\ UNCHANGED <<buffers, glBound, glStore, hist, programs, copy, textures,
                   framebuffers>>

\* Framebuffer.attach(texture)
FramebufferAttach(f, t) ==
    LET this == framebuffers[f]
        bound == GlBindFramebuffer(gl, this.framebuffer)
    IN /\ steps < MaxSteps
       /\ gl' = GlFramebufferTexture2D(bound, textures[t].texture)
       /\ calls' = << <<"bindFramebuffer", "FRAMEBUFFER", this.framebuffer>>,
                      <<"framebufferTexture2D", "FRAMEBUFFER",
                        "COLOR_ATTACHMENT0", "TEXTURE_2D",
                        textures[t].texture, 0>> >>
       /\ result' = "this"
       /\ op' = [name |-> "attach", self |-> f, texture |-> t]
       /\ steps' = steps + 1
       /\ UNCHANGED <<buffers, glBound, glStore, hist, programs, copy,
                      textures, framebuffers>>

\* Framebuffer.attachDepth(width, height)
FramebufferAttachDepth(f, width, height) ==
    LET this == framebuffers[f]
        bound == GlBindFramebuffer(gl, this.framebuffer)
        bind == << <<"bindFramebuffer", "FRAMEBUFFER", this.framebuffer>> >>
        created == GlCreateRenderbuffer(bound)
        renderbuffer == Len(created.storage)
    IN /\ steps < MaxSteps
       /\ IF NeedsRenderbuffer(this.renderbuffer)
          THEN /\ framebuffers' = [framebuffers EXCEPT
                     ![f].renderbuffer = renderbuffer,
                     ![f].created = @ + 1,
                     ![f].dims = IF @ = <<>> THEN <<width, height>> ELSE @]
               /\ gl' = GlFramebufferRenderbuffer(
                            GlRenderbufferStorage(created,
                                "DEPTH_COMPONENT16", width, height),
                            renderbuffer)
               /\ calls' = bind \o
                    << <<"createRenderbuffer">>,
                       <<"renderbufferStorage", "RENDERBUFFER",
                         "DEPTH_COMPONENT16", width, height>>,
                       <<"framebufferRenderbuffer", "FRAMEBUFFER",
                         "DEPTH_ATTACHMENT", "RENDERBUFFER", renderbuffer>> >>
          ELSE /\ gl' = bound
               /\ calls' = bind
               /\ UNCHANGED framebuffers
       /\ result' = "this"
       /\ op' = [name |-> "attachDepth", self |-> f, width |-> width,
                 height |-> height, before |-> this.renderbuffer,
                 bound |-> gl.renderbuffer]
       /\ steps' = steps + 1
       /\ UNCHANGED <<buffers, glBound, glStore, hist, programs, copy,
                      textures>>

(* ----------------------------- Texture -------------------------------- *)

\* Arguments of the constructor: each omitted or given.
FormatArgs == {"absent", "RGB"}
WrapArgs == {"absent", "REPEAT"}
FilterArgs == {"absent", "NEAREST"}

\* x == null ? otherwise : x, after a default that stands in for an
\* omitted argument
OrDefault(x, otherwise) == IF x = "absent" THEN otherwise ELSE x

\* Sources of subset: a plain Array, a Uint8Array, an ImageData, of n
\* elements or bytes. Offsets; a width or height omitted or given.
SourceKinds == {"Array", "Uint8Array", "ImageData"}
SourceArgs == [kind : SourceKinds, n : {4}]
OffsetArgs == {0, 1}
SubDimArgs == {<<>>, <<2>>}

\* A mutant of SubsetSource: a plain Array is not converted.
SubsetSourceUnconverted(source) == source

\* subset: if (source instanceof Array) source = new Uint8Array(source)
SubsetSource(source) ==
    IF source.kind = "Array" THEN [kind |-> "Uint8Array", n |-> source.n]
    ELSE source

\* subset: width == null && height == null
MissingDimensions(width, height) == width = <<>> /\ height = <<>>

\* new Texture(gl, format, wrap, filter)
NewTexture(format, wrap, filter) ==
    LET texture == gl.textureCount + 1
        w == OrDefault(wrap, "CLAMP_TO_EDGE")
        f == OrDefault(filter, "LINEAR")
    IN /\ steps < MaxSteps
       /\ Len(textures) < MaxBuffers
       /\ textures' = Append(textures,
             [texture |-> texture, format |-> OrDefault(format, "RGBA")])
       /\ gl' = [gl EXCEPT !.textureCount = texture,
                           !.texture[gl.unit] = texture,
                           !.image = Append(@, NoImage)]
       /\ calls' = << <<"createTexture">>,
                      <<"bindTexture", "TEXTURE_2D", texture>>,
                      <<"texParameteri", "TEXTURE_2D", "TEXTURE_WRAP_S", w>>,
                      <<"texParameteri", "TEXTURE_2D", "TEXTURE_WRAP_T", w>>,
                      <<"texParameteri", "TEXTURE_2D", "TEXTURE_MIN_FILTER",
                        f>>,
                      <<"texParameteri", "TEXTURE_2D", "TEXTURE_MAG_FILTER",
                        f>> >>
       /\ result' = "this"
       /\ op' = [name |-> "new Texture", format |-> format, wrap |-> wrap,
                 filter |-> filter]
       /\ steps' = steps + 1
       /\ UNCHANGED <<buffers, glBound, glStore, hist, programs, copy,
                      framebuffers>>

\* Texture.subset(source, xoff, yoff, width, height); an omitted width or
\* height is <<>>
TextureSubset(t, source, xoff, yoff, width, height) ==
    LET this == textures[t]
        bind == << <<"bindTexture", "TEXTURE_2D", this.texture>> >>
        src == SubsetSource(source)
    IN /\ steps < MaxSteps
       /\ gl' = [gl EXCEPT !.texture[gl.unit] = this.texture]
       /\ CASE src.kind = "Uint8Array" /\ MissingDimensions(width, height) ->
                 /\ calls' = bind
                 /\ result' = Thrown(
                      "Must supply width or height when using an array")
            [] src.kind = "Uint8Array"
                  /\ ~MissingDimensions(width, height) ->
                 /\ calls' = bind \o
                      << <<"texSubImage2D", "TEXTURE_2D", 0, xoff, yoff,
                           width, height, this.format, "UNSIGNED_BYTE",
                           src>> >>
                 /\ result' = "this"
            [] OTHER ->
                 /\ calls' = bind \o
                      << <<"texSubImage2D", "TEXTURE_2D", 0, xoff, yoff,
                           this.format, "UNSIGNED_BYTE", src>> >>
                 /\ result' = "this"
       /\ op' = [name |-> "subset", self |-> t, source |-> source,
                 xoff |-> xoff, yoff |-> yoff, width |-> width,
                 height |-> height]
       /\ steps' = steps + 1
       /\ UNCHANGED <<buffers, glBound, glStore, hist, programs, copy,
                      textures, framebuffers>>

\* The `unit` argument of bind: omitted, or a unit.
UnitArgs == {<<>>, <<1>>}

\* The rectangle arguments of copy.
RectArgs == {<<0, 0, 2, 2>>, <<1, 0, 1, 2>>}

\* Texture.isArrayBufferView(source): ArrayBuffer.isView(source) in the
\* modular copy, typeof source === "ArrayBufferView" in the monolithic
\* one, and typeof never yields that string
TextureIsArrayBufferView(c, source) ==
    IF c = "modular" THEN source.kind = "Uint8Array" ELSE FALSE

\* gl.texImage2D(TEXTURE_2D, 0, format, ...): a new image for the texture
\* bound to the active unit
GlTexImage2D(g, image) ==
    IF g.texture[g.unit] = 0
    THEN [g EXCEPT !.error = GlRaise(@, "INVALID_OPERATION")]
    ELSE [g EXCEPT !.image[g.texture[g.unit]] = image]

\* gl.copyTexImage2D(TEXTURE_2D, 0, format, x, y, width, height, 0): the
\* rectangle of the framebuffer becomes the image of the texture bound to
\* the active unit
GlCopyTexImage2D(g, format, rect) ==
    IF g.texture[g.unit] = 0
    THEN [g EXCEPT !.error = GlRaise(@, "INVALID_OPERATION")]
    ELSE [g EXCEPT !.image[g.texture[g.unit]] =
                        <<"copyTexImage2D", format>> \o rect]

\* The texImage2D calls of set, in copy c of the wrappers, after its bind.
SetUploads(c, this, source, width, height) ==
    IF source.kind = "Array" THEN <<>>
    ELSE IF TextureIsArrayBufferView(c, source)
    THEN << <<"texImage2D", "TEXTURE_2D", 0, this.format, width, height, 0,
              this.format, "UNSIGNED_BYTE", source>> >>
    ELSE << <<"texImage2D", "TEXTURE_2D", 0, this.format, this.format,
              "UNSIGNED_BYTE", source>> >>

\* Texture.bind(unit)
TextureBind(t, unit) ==
    LET active == IF unit = <<>> THEN gl.unit ELSE unit[1]
    IN /\ steps < MaxSteps
       /\ gl' = [gl EXCEPT !.unit = active,
                           !.texture[active] = textures[t].texture]
       /\ calls' = (IF unit = <<>> THEN <<>>
                    ELSE << <<"activeTexture", unit[1]>> >>)
                   \o << <<"bindTexture", "TEXTURE_2D",
                           textures[t].texture>> >>
       /\ result' = "this"
       /\ op' = [name |-> "bind", self |-> t, unit |-> unit]
       /\ steps' = steps + 1
       /\ UNCHANGED <<buffers, glBound, glStore, hist, programs, copy,
                      textures, framebuffers>>

\* Texture.set(source, width, height); an omitted width or height is <<>>
TextureSet(t, source, width, height) ==
    LET this == textures[t]
        bound == [gl EXCEPT !.texture[gl.unit] = this.texture]
        uploads == SetUploads(copy, this, source, width, height)
    IN /\ steps < MaxSteps
       /\ gl' = IF uploads = <<>> THEN bound
                ELSE GlTexImage2D(bound, <<"texImage2D", this.format>>)
       /\ calls' = << <<"bindTexture", "TEXTURE_2D", this.texture>> >>
                   \o uploads
       /\ result' = "this"
       /\ op' = [name |-> "set", self |-> t, source |-> source,
                 width |-> width, height |-> height]
       /\ steps' = steps + 1
       /\ UNCHANGED <<buffers, glBound, glStore, hist, programs, copy,
                      textures, framebuffers>>

\* Texture.copy(x, y, width, height), rect being <<x, y, width, height>>
TextureCopy(t, rect) ==
    LET this == textures[t]
    IN /\ steps < MaxSteps
       /\ gl' = GlCopyTexImage2D(gl, this.format, rect)
       /\ calls' = << <<"copyTexImage2D", "TEXTURE_2D", 0, this.format,
                        rect[1], rect[2], rect[3], rect[4], 0>> >>
       /\ result' = "this"
       /\ op' = [name |-> "copy", self |-> t, rect |-> rect,
                 bound |-> gl.texture[gl.unit]]
       /\ steps' = steps + 1
       /\ UNCHANGED <<buffers, glBound, glStore, hist, programs, copy,
                      textures, framebuffers>>

(* ------------------------ specifications ------------------------------ *)

NoOp == [name |-> "none"]

InitBuffer ==
    /\ buffers = <<>>
    /\ glBound = [t \in Targets |-> 0]
    /\ glStore = <<>>
    /\ hist = <<>>
    /\ programs = <<>>
    /\ textures = <<>>
    /\ framebuffers = <<>>
    /\ gl = GlFresh
    /\ copy \in Copies
    /\ op = NoOp
    /\ calls = <<>>
    /\ result = "this"
    /\ steps = 0

NextBuffer ==
    \/ \E target \in TargetArgs : NewBuffer(target)
    \/ \E b \in 1 .. Len(buffers) : BufferBind(b)
    \/ \E b \in 1 .. Len(buffers), data \in DataArgs, usage \in UsageArgs :
          BufferUpdate(b, data, usage)

SpecBuffer == InitBuffer /\ [][NextBuffer]_vars

\* One Buffer on ARRAY_BUFFER and one linked Program have been constructed,
\* and the Program has been put to use.
InitProgram ==
    /\ buffers = << [target |-> BufferTarget("null"), buffer |-> 1,
                     size |-> UnsetSize] >>
    /\ glBound = [t \in Targets |-> 0]
    /\ glStore = << NoStore >>
    /\ hist = << NoHist >>
    /\ programs = << NewProgram(1) >>
    /\ textures = <<>>
    /\ framebuffers = <<>>
    /\ gl = [GlFresh EXCEPT !.programs = 1, !.shaders = 2, !.program = 1]
    /\ copy \in Copies
    /\ op = NoOp
    /\ calls = <<>>
    /\ result = "this"
    /\ steps = 0

NextProgram ==
    \/ \E p \in 1 .. Len(programs), name \in Names, value \in ValueArgs,
          i \in BOOLEAN : ProgramUniform(p, name, value, i)
    \/ \E p \in 1 .. Len(programs), name \in Names, matrix \in MatrixArgs,
          transpose \in TransposeArgs :
          ProgramMatrix(p, name, matrix, transpose)
    \/ \E p \in 1 .. Len(programs), name \in Names,
          value \in 0 .. Len(buffers), size \in SizeArgs,
          stride \in StrideArgs : ProgramAttrib(p, name, value, size, stride)
    \/ \E p \in 1 .. Len(programs), disabled \in DisableOrders :
          ProgramDisable(p, disabled)

SpecProgram == InitProgram /\ [][NextProgram]_vars

\* Nothing has been constructed; Programs are constructed from any sources.
InitConstruct == InitBuffer

NextConstruct ==
    \E vertex \in ShaderSources, fragment \in ShaderSources,
       linked \in BOOLEAN : ProgramConstruct(vertex, fragment, linked)

SpecConstruct == InitConstruct /\ [][NextConstruct]_vars

\* One linked Program has been constructed on a context that was adopted
\* with its error flag clear or set.
InitDraw ==
    /\ buffers = <<>>
    /\ glBound = [t \in Targets |-> 0]
    /\ glStore = <<>>
    /\ hist = <<>>
    /\ programs = << NewProgram(1) >>
    /\ textures = <<>>
    /\ framebuffers = <<>>
    /\ \E error \in {"NO_ERROR", "INVALID_VALUE"} :
          gl = [GlFresh EXCEPT !.programs = 1, !.shaders = 2,
                               !.error = error]
    /\ copy \in Copies
    /\ op = NoOp
    /\ calls = <<>>
    /\ result = "this"
    /\ steps = 0

NextDraw ==
    \/ \E p \in 1 .. Len(programs) : ProgramUse(p)
    \/ \E p \in 1 .. Len(programs), mode \in ModeArgs, count \in CountArgs,
          type \in TypeArgs : ProgramDraw(p, mode, count, type)

SpecDraw == InitDraw /\ [][NextDraw]_vars

\* The context as the application hands it over: fresh, or with a
\* renderbuffer of the application's bound to RENDERBUFFER. One Texture has
\* been constructed.
InitFramebuffer ==
    /\ buffers = <<>>
    /\ glBound = [t \in Targets |-> 0]
    /\ glStore = <<>>
    /\ hist = <<>>
    /\ programs = <<>>
    /\ textures = << [texture |-> 1, format |-> "RGBA"] >>
    /\ framebuffers = <<>>
    /\ \/ gl = [GlFresh EXCEPT !.texture[0] = 1, !.textureCount = 1,
                               !.image = << NoImage >>]
       \/ gl = [GlFresh EXCEPT !.texture[0] = 1, !.textureCount = 1,
                               !.image = << NoImage >>,
                               !.renderbuffer = 1,
                               !.storage = << Storage("RGBA4", 1, 1) >>]
    /\ copy \in Copies
    /\ op = NoOp
    /\ calls = <<>>
    /\ result = "this"
    /\ steps = 0

NextFramebuffer ==
    \/ \E args \in {<<>>} \cup {<<h>> : h \in 0 .. gl.framebufferCount} :
          NewFramebuffer(args)
    \/ NewIgloo
    \/ \E f \in 1 .. Len(framebuffers) : FramebufferBind(f)
    \/ \E f \in 1 .. Len(framebuffers) : FramebufferUnbind(f)
    \/ \E f \in 1 .. Len(framebuffers), t \in 1 .. Len(textures) :
          FramebufferAttach(f, t)
    \/ \E f \in 1 .. Len(framebuffers), width \in DimArgs,
          height \in DimArgs : FramebufferAttachDepth(f, width, height)

SpecFramebuffer == InitFramebuffer /\ [][NextFramebuffer]_vars

\* Nothing has been constructed; Textures are constructed and written to.
InitTexture == InitBuffer

NextTexture ==
    \/ \E format \in FormatArgs, wrap \in WrapArgs, filter \in FilterArgs :
          NewTexture(format, wrap, filter)
    \/ \E t \in 1 .. Len(textures), source \in SourceArgs,
          xoff \in OffsetArgs, yoff \in OffsetArgs, width \in SubDimArgs,
          height \in SubDimArgs :
          TextureSubset(t, source, xoff, yoff, width, height)
    \/ \E t \in 1 .. Len(textures), unit \in UnitArgs : TextureBind(t, unit)
    \/ \E t \in 1 .. Len(textures), source \in SourceArgs,
          width \in SubDimArgs, height \in SubDimArgs :
          TextureSet(t, source, width, height)
    \/ \E t \in 1 .. Len(textures), rect \in RectArgs : TextureCopy(t, rect)

SpecTexture == InitTexture /\ [][NextTexture]_vars

\* One Buffer and two linked Programs have been constructed; neither
\* Program is in use. The Programs are used, fed and drawn with in any
\* order.
InitRender ==
    /\ buffers = << [target |-> BufferTarget("null"), buffer |-> 1,
                     size |-> UnsetSize] >>
    /\ glBound = [t \in Targets |-> 0]
    /\ glStore = << NoStore >>
    /\ hist = << NoHist >>
    /\ programs = << NewProgram(1), NewProgram(2) >>
    /\ textures = <<>>
    /\ framebuffers = <<>>
    /\ gl = [GlFresh EXCEPT !.programs = 2, !.shaders = 4]
    /\ copy \in Copies
    /\ op = NoOp
    /\ calls = <<>>
    /\ result = "this"
    /\ steps = 0

\* The value fed to uniforms between draws.
RenderValueArgs == {[kind |-> "number", n |-> 1]}

NextRender ==
    \/ \E p \in 1 .. Len(programs) : ProgramUse(p)
    \/ \E p \in 1 .. Len(programs), mode \in ModeArgs, count \in CountArgs,
          type \in TypeArgs : ProgramDraw(p, mode, count, type)
    \/ \E p \in 1 .. Len(programs), name \in Names,
          value \in RenderValueArgs : ProgramUniform(p, name, value, FALSE)
    \/ \E p \in 1 .. Len(programs), name \in Names,
          value \in 1 .. Len(buffers) :
          ProgramAttrib(p, name, value, 2, <<>>)

SpecRender == InitRender /\ [][NextRender]_vars

(* ------------------------- Buffer: claims ----------------------------- *)

\* C1: an update whose data has the byte length of the buffer's previous
\* upload issues bindBuffer and then one bufferSubData at offset 0, issues
\* no bufferData and leaves the usage hint of the data store as it was,
\* whatever usage argument is passed.
C1_SameSizeIsPartialUpdate ==
    (op.name = "update" /\ op.prevLen = ByteLength(UpdateData(op.data))) =>
        /\ calls = << <<"bindBuffer", buffers[op.self].target,
                        buffers[op.self].buffer>>,
                      <<"bufferSubData", buffers[op.self].target, 0,
                        UpdateData(op.data)>> >>
        /\ \A i \in 1 .. Len(calls) : calls[i][1] # "bufferData"
        /\ glStore[buffers[op.self].buffer].usage = op.stored

\* C1 witness: a same-size update whose usage hint differs from the hint
\* the store was allocated with, answered by bufferSubData.
C1_Witness ==
    /\ op.name = "update"
    /\ op.prevLen = ByteLength(UpdateData(op.data))
    /\ UpdateUsage(op.usage) # op.stored
    /\ calls[2][1] = "bufferSubData"

\* C2 as stated: a run of N updates of equal byte length has issued one
\* bufferData and N bufferSubData calls.
C2_OneDataAndNSubData ==
    \A b \in 1 .. Len(buffers) :
        hist[b].runLen >= 1 =>
            hist[b].runData = 1 /\ hist[b].runSub = hist[b].runLen

\* C2 amended: a run of N updates of equal byte length, begun on a fresh
\* buffer or after an update of another byte length, has issued one
\* bufferData and N - 1 bufferSubData calls.
C2_OneDataAndNMinusOneSubData ==
    \A b \in 1 .. Len(buffers) :
        hist[b].runLen >= 1 =>
            hist[b].runData = 1 /\ hist[b].runSub = hist[b].runLen - 1

\* C2 witness: three updates of one byte length, under differing usage
\* hints, answered by one bufferData and two bufferSubData.
C2_Witness ==
    \E b \in 1 .. Len(buffers) :
        /\ hist[b].runLen = 3
        /\ hist[b].runData = 1
        /\ hist[b].runSub = 2
        /\ op.name = "update" /\ op.self = b
        /\ UpdateUsage(op.usage) # op.stored

\* C3: an update whose data byte length differs from that of the previous
\* update, or that is the first update of the buffer, issues bindBuffer
\* and then exactly one bufferData, and no bufferSubData.
C3_SizeChangeReallocates ==
    (op.name = "update" /\ op.prevLen # ByteLength(UpdateData(op.data))) =>
        /\ calls = << <<"bindBuffer", buffers[op.self].target,
                        buffers[op.self].buffer>>,
                      <<"bufferData", buffers[op.self].target,
                        UpdateData(op.data), UpdateUsage(op.usage)>> >>
        /\ \A i \in 1 .. Len(calls) : calls[i][1] # "bufferSubData"

\* C3 witness: a later update of a buffer with data of another byte
\* length than its previous update, answered by bufferData.
C3_Witness ==
    /\ op.name = "update"
    /\ op.prevLen # UnsetSize
    /\ op.prevLen # ByteLength(UpdateData(op.data))
    /\ calls[2][1] = "bufferData"

\* C4: the cached size of every Buffer is the byte length of the data of
\* its most recent update, or -1 when it was never updated, and a step
\* changes the cached size of a Buffer only if it is an update of it.
C4_SizeIsLastByteLength ==
    /\ [](\A b \in 1 .. Len(buffers) :
            /\ buffers[b].size = hist[b].lastLen
            /\ hist[b].updates = 0 => buffers[b].size = -1)
    /\ [][\A b \in 1 .. Len(buffers) :
            buffers'[b].size # buffers[b].size =>
                op'.name = "update" /\ op'.self = b]_vars

\* C4 witness: a buffer updated twice with data of different byte lengths
\* beside a buffer never updated.
C4_Witness ==
    \E b, c \in 1 .. Len(buffers) :
        /\ hist[b].updates = 2
        /\ hist[b].runLen = 1
        /\ buffers[b].size = hist[b].lastLen
        /\ hist[c].updates = 0
        /\ buffers[c].size = -1

(* ------------------------- Program: claims ---------------------------- *)

\* C5 as stated: a name passed to uniform calls only, or to attrib calls
\* only, has had exactly one location/index query issued for it, however
\* many such calls were made; so two calls with one name issue one query
\* and a call with an unseen name issues one more.
C5_OneQueryPerName ==
    \A p \in 1 .. Len(programs), name \in Names :
        LET pr == programs[p].probe[name]
        IN (\/ pr.uniform >= 1 /\ pr.matrix = 0 /\ pr.attrib = 0
            \/ pr.attrib >= 1 /\ pr.matrix = 0 /\ pr.uniform = 0)
           => pr.queries = 1

\* C6 as stated: over any uniform, matrix and attrib calls, at most one
\* location/index query is ever issued for a name of a Program.
C6_AtMostOneQuery ==
    \A p \in 1 .. Len(programs), name \in Names :
        programs[p].probe[name].queries <= 1

\* C7: uniform(name, value, i) with an Array or typed array of length 1..4
\* invokes the vector entry point of that length, with a number or boolean
\* the scalar entry point, float for i false and integer for i true; it
\* invokes no other uniform entry point, passes the cached location and
\* the value, and returns the Program.
C7_UniformDispatch ==
    (/\ op.name = "uniform"
     /\ \/ op.value.kind \in {"Array", "Float32Array"} /\ op.value.n \in 1 .. 4
        \/ op.value.kind \in {"number", "boolean"})
    =>
    LET float == <<"uniform1fv", "uniform2fv", "uniform3fv", "uniform4fv">>
        int == <<"uniform1iv", "uniform2iv", "uniform3iv", "uniform4iv">>
        entry == IF op.value.kind \in {"number", "boolean"}
                 THEN (IF op.i THEN "uniform1i" ELSE "uniform1f")
                 ELSE (IF op.i THEN int[op.value.n] ELSE float[op.value.n])
    IN /\ result = "this"
       /\ Cardinality({k \in 1 .. Len(calls) :
                          calls[k][1] \in GlUniformMethods}) = 1
       /\ calls[Len(calls)] =
            <<entry, programs[op.self].vars[op.var], op.value>>

\* C7 witness: a typed array of four elements with the integer flag,
\* answered by uniform4iv.
C7_Witness ==
    /\ op.name = "uniform"
    /\ op.value = [kind |-> "Float32Array", n |-> 4]
    /\ op.i
    /\ calls[Len(calls)][1] = "uniform4iv"
    /\ result = "this"

\* C8: uniform(name, value) with a present value that is neither an array
\* nor a number nor a boolean throws the invalid-uniform-value error and
\* invokes no uniform entry point.
C8_InvalidUniformValue ==
    (op.name = "uniform" /\ op.value.kind \in {"object", "DataView"}) =>
        /\ result = "InvalidUniformValue"
        /\ \A k \in 1 .. Len(calls) : calls[k][1] \notin GlUniformMethods

\* C8 witness: uniform(name, {}) on a name already in the cache has thrown
\* without a call to the context.
C8_Witness ==
    /\ op.name = "uniform"
    /\ op.value.kind = "object"
    /\ ~IsNullish(op.cached)
    /\ result = "InvalidUniformValue"
    /\ calls = <<>>

\* C9: matrix(name, matrix, transpose) with a plain Array of 16 elements
\* invokes uniformMatrix4fv, with one of 9 elements uniformMatrix3fv,
\* passing the cached location of name, the transpose flag and the matrix.
C9_MatrixDispatch ==
    (op.name = "matrix" /\ op.matrix.kind = "Array"
        /\ op.matrix.n \in {9, 16}) =>
        /\ result = "this"
        /\ calls[Len(calls)] =
             <<IF op.matrix.n = 16 THEN "uniformMatrix4fv"
               ELSE "uniformMatrix3fv",
               programs[op.self].vars[op.var],
               op.transpose = "true", op.matrix>>

\* C9 witness: a 16-element Array with transpose set, answered by
\* uniformMatrix4fv at the location of an active uniform.
C9_Witness ==
    /\ op.name = "matrix"
    /\ op.matrix = [kind |-> "Array", n |-> 16]
    /\ op.transpose = "true"
    /\ calls[Len(calls)][1] = "uniformMatrix4fv"
    /\ calls[Len(calls)][2].t = "location"

\* C10 as stated: a typed-array view of 16, 9 or 4 32-bit floats is
\* dispatched like a plain Array of as many elements: to uniformMatrix4fv,
\* uniformMatrix3fv and uniformMatrix2fv.
C10_ViewDispatch ==
    (op.name = "matrix" /\ op.matrix.kind = "Float32Array"
        /\ op.matrix.n \in {4, 9, 16}) =>
        /\ result = "this"
        /\ calls[Len(calls)][1] =
             (CASE op.matrix.n = 16 -> "uniformMatrix4fv"
                [] op.matrix.n = 9 -> "uniformMatrix3fv"
                [] op.matrix.n = 4 -> "uniformMatrix2fv")

(* -------------------- Program construction: claims -------------------- *)

\* The calls of the operation just performed that invoke `method`.
CallsOf(method) == {k \in 1 .. Len(calls) : calls[k][1] = method}

\* C11: constructing a Program whose vertex source fails to compile throws
\* an error whose message is the compiler's log for the vertex stage, and
\* that construction compiles only the vertex stage, attaches no shader
\* and never invokes linkProgram.
C11_VertexFailureStopsConstruction ==
    (op.name = "new Program" /\ ~GlCompileStatus(op.vertex)) =>
        /\ result = Thrown(GlShaderInfoLog("VERTEX_SHADER", op.vertex))
        /\ Cardinality(CallsOf("compileShader")) = 1
        /\ \A k \in CallsOf("createShader") : calls[k][2] = "VERTEX_SHADER"
        /\ CallsOf("attachShader") = {}
        /\ CallsOf("linkProgram") = {}

\* C11 witness: a construction from a rejected vertex source and an
\* accepted fragment source, which the linker would have accepted.
C11_Witness ==
    /\ op.name = "new Program"
    /\ ~GlCompileStatus(op.vertex)
    /\ GlCompileStatus(op.fragment)
    /\ op.linked
    /\ result # "this"

\* C12: a construction returns an object exactly when the vertex compile,
\* the fragment compile and the link all succeed; otherwise it throws the
\* log of the first failing step; and linkProgram is invoked only after
\* both stages were compiled and attached.
C12_ConstructionOutcome ==
    op.name = "new Program" =>
        LET vOk == GlCompileStatus(op.vertex)
            fOk == GlCompileStatus(op.fragment)
        IN /\ result = "this" <=> (vOk /\ fOk /\ op.linked)
           /\ ~vOk =>
                 result = Thrown(GlShaderInfoLog("VERTEX_SHADER", op.vertex))
           /\ (vOk /\ ~fOk) =>
                 result = Thrown(GlShaderInfoLog("FRAGMENT_SHADER",
                                                 op.fragment))
           /\ (vOk /\ fOk /\ ~op.linked) =>
                 result = Thrown(GlProgramInfoLog(gl.programs))
           /\ \A k \in CallsOf("linkProgram") :
                 /\ Cardinality({j \in CallsOf("compileShader") : j < k}) = 2
                 /\ Cardinality({j \in CallsOf("attachShader") : j < k}) = 2
                 /\ vOk /\ fOk

\* C12 witness: both stages compile and the link fails, so the error
\* carries the linker's log.
C12_Witness ==
    /\ op.name = "new Program"
    /\ GlCompileStatus(op.vertex)
    /\ GlCompileStatus(op.fragment)
    /\ ~op.linked
    /\ result = Thrown(GlProgramInfoLog(gl.programs))
    /\ CallsOf("linkProgram") # {}

(* --------------------------- draw: claims ----------------------------- *)

\* C13: a draw issues exactly one draw call: drawArrays(mode, 0, count)
\* when the index type is omitted or null, drawElements(mode, count, type,
\* 0) otherwise; never both and never neither.
C13_OneDrawCall ==
    op.name = "draw" =>
        /\ Cardinality(CallsOf("drawArrays") \cup CallsOf("drawElements")) = 1
        /\ IF op.type \in {"absent", "null"}
           THEN calls[1] = <<"drawArrays", op.mode, 0, op.count>>
           ELSE calls[1] = <<"drawElements", op.mode, op.count, op.type, 0>>

\* C13 witness: a draw with an explicit null index type, answered by
\* drawArrays.
C13_Witness ==
    /\ op.name = "draw"
    /\ op.type = "null"
    /\ calls[1][1] = "drawArrays"

\* C14: a draw calls getError exactly once, after its draw call; it
\* throws exactly when that call reports something other than NO_ERROR,
\* and returns the Program otherwise.
C14_ErrorQueriedOnceAfterDraw ==
    op.name = "draw" =>
        /\ CallsOf("getError") = {2}
        /\ calls[1][1] \in {"drawArrays", "drawElements"}
        /\ result = Thrown("WebGL rendering error")
             <=> op.reported # "NO_ERROR"
        /\ op.reported = "NO_ERROR" => result = "this"

\* C14 witness: a draw the context accepts, made while the error flag was
\* already set, throws.
C14_Witness ==
    /\ op.name = "draw"
    /\ op.pending # "NO_ERROR"
    /\ GlDrawError(gl.program, op.mode, op.count, DrawIndexed(op.type),
                   op.type) = "NO_ERROR"
    /\ result = Thrown("WebGL rendering error")

(* -------------------------- disable: claims --------------------------- *)

\* C15: after any uniform, matrix and attrib calls, disable issues one
\* disableVertexAttribArray, with the cached entry, for each name whose
\* entry of the cache was resolved by an attribute query and none for a
\* name whose entry was resolved by a uniform query, and leaves the cache
\* as it was.
C15_DisableOnlyAttribEntries ==
    op.name = "disable" =>
        LET this == programs[op.self]
        IN /\ {op.disabled[k] : k \in 1 .. Len(op.disabled)}
                = {n \in Names : this.probe[n].resolved = "attrib"}
           /\ \A j, k \in 1 .. Len(op.disabled) :
                 op.disabled[j] = op.disabled[k] => j = k
           /\ Len(calls) = Len(op.disabled)
           /\ \A k \in 1 .. Len(calls) :
                 calls[k] = <<"disableVertexAttribArray",
                              this.vars[op.disabled[k]]>>
           /\ this.vars = op.before

\* C15 witness: a disable on a cache holding a uniform location and an
\* attribute index disables the attribute alone.
C15_Witness ==
    /\ op.name = "disable"
    /\ \E n \in Names : programs[op.self].vars[n].t = "location"
    /\ Len(calls) = 1
    /\ calls[1][2] = Number(0)

(* ------------------------ Framebuffer: claims ------------------------- *)

\* C16: over any attachDepth calls no Framebuffer creates more than one
\* renderbuffer: an attachDepth on a Framebuffer that has its depth
\* renderbuffer, whatever its dimensions, issues no createRenderbuffer, no
\* renderbufferStorage and no framebufferRenderbuffer and keeps the
\* renderbuffer.
C16_DepthRenderbufferCreatedOnce ==
    /\ \A f \in 1 .. Len(framebuffers) : framebuffers[f].created <= 1
    /\ (op.name = "attachDepth" /\ op.before # 0) =>
          /\ CallsOf("createRenderbuffer") = {}
          /\ CallsOf("renderbufferStorage") = {}
          /\ CallsOf("framebufferRenderbuffer") = {}
          /\ framebuffers[op.self].renderbuffer = op.before

\* C16 witness: a second attachDepth whose dimensions differ from those
\* of the first.
C16_Witness ==
    /\ op.name = "attachDepth"
    /\ op.before # 0
    /\ framebuffers[op.self].dims # <<op.width, op.height>>
    /\ framebuffers[op.self].created = 1

\* C17 as stated: after the first attachDepth(width, height) of a
\* Framebuffer, the renderbuffer that call created has DEPTH_COMPONENT16
\* storage of width x height and is the depth attachment of the
\* Framebuffer's framebuffer, whatever was bound to RENDERBUFFER before.
C17_DepthStorageAndAttachment ==
    (op.name = "attachDepth" /\ op.before = 0) =>
        LET this == framebuffers[op.self]
        IN /\ gl.storage[this.renderbuffer]
                = Storage("DEPTH_COMPONENT16", op.width, op.height)
           /\ this.framebuffer # 0
           /\ gl.depth[this.framebuffer] = this.renderbuffer

\* C18: a Framebuffer constructed with a handle argument, null included,
\* calls no createFramebuffer and stores that handle; constructed without
\* one it calls createFramebuffer exactly once and stores the new handle;
\* constructing an Igloo calls no createFramebuffer and its
\* defaultFramebuffer holds null.
C18_WrapNeverAllocates ==
    LET made == framebuffers[Len(framebuffers)]
    IN /\ (op.name = "new Framebuffer" /\ op.args # <<>>) =>
             /\ CallsOf("createFramebuffer") = {}
             /\ gl.framebufferCount = op.count
             /\ made.framebuffer = op.args[1]
       /\ (op.name = "new Framebuffer" /\ op.args = <<>>) =>
             /\ Cardinality(CallsOf("createFramebuffer")) = 1
             /\ gl.framebufferCount = op.count + 1
             /\ made.framebuffer = gl.framebufferCount
       /\ op.name = "new Igloo" =>
             /\ CallsOf("createFramebuffer") = {}
             /\ gl.framebufferCount = op.count
             /\ made.framebuffer = 0

\* C18 witness: a Framebuffer constructed with an explicit null on a
\* context that has handed out a framebuffer before.
C18_Witness ==
    /\ op.name = "new Framebuffer"
    /\ op.args = <<0>>
    /\ gl.framebufferCount > 0
    /\ framebuffers[Len(framebuffers)].framebuffer = 0

(* -------------------------- Texture: claims --------------------------- *)

\* The sources that are raw pixel buffers: a Uint8Array, or a plain Array
\* of byte values.
RawPixelKinds == {"Array", "Uint8Array"}

\* C19: a subset with a raw pixel buffer and neither width nor height
\* throws the missing-dimensions error and issues no texSubImage2D; with
\* an image-like source and neither width nor height it returns the
\* Texture and issues exactly one texSubImage2D, at (xoff, yoff).
C19_MissingDimensions ==
    (op.name = "subset" /\ op.width = <<>> /\ op.height = <<>>) =>
        IF op.source.kind \in RawPixelKinds
        THEN /\ result = Thrown(
                  "Must supply width or height when using an array")
             /\ CallsOf("texSubImage2D") = {}
        ELSE /\ result = "this"
             /\ Cardinality(CallsOf("texSubImage2D")) = 1
             /\ \A k \in CallsOf("texSubImage2D") :
                   calls[k][4] = op.xoff /\ calls[k][5] = op.yoff

\* C19 witness: a plain Array with neither width nor height is refused.
C19_Witness ==
    /\ op.name = "subset"
    /\ op.source.kind = "Array"
    /\ op.width = <<>> /\ op.height = <<>>
    /\ result # "this"
    /\ Len(calls) = 1

\* C20 as stated: a subset with a raw pixel buffer issues texSubImage2D
\* only when both width and height are supplied, and passes no absent
\* width or height to texSubImage2D.
C20_BothDimensionsRequired ==
    (op.name = "subset" /\ op.source.kind \in RawPixelKinds) =>
        /\ CallsOf("texSubImage2D") # {} =>
              op.width # <<>> /\ op.height # <<>>
        /\ \A k \in CallsOf("texSubImage2D") :
              calls[k][6] # <<>> /\ calls[k][7] # <<>>

\* C21 as stated: every set binds the texture and then issues exactly one
\* texImage2D with the stored format: the form with explicit width and
\* height for a Uint8Array and for a plain Array converted to one, the
\* form without them for any other source.
C21_SetUploadsOnce ==
    op.name = "set" =>
        LET this == textures[op.self]
        IN /\ calls[1] = <<"bindTexture", "TEXTURE_2D", this.texture>>
           /\ Len(calls) = 2
           /\ IF op.source.kind \in RawPixelKinds
              THEN calls[2] = <<"texImage2D", "TEXTURE_2D", 0, this.format,
                                op.width, op.height, 0, this.format,
                                "UNSIGNED_BYTE", SubsetSource(op.source)>>
              ELSE calls[2] = <<"texImage2D", "TEXTURE_2D", 0, this.format,
                                this.format, "UNSIGNED_BYTE", op.source>>

\* C22 as stated: a copy on a Texture is issued while that Texture's
\* handle is bound to TEXTURE_2D of the active unit, and the rectangle
\* becomes the image of that Texture.
C22_CopyIntoThisTexture ==
    op.name = "copy" =>
        /\ op.bound = textures[op.self].texture
        /\ gl.image[textures[op.self].texture]
             = <<"copyTexImage2D", textures[op.self].format>> \o op.rect

(* ---------------------- binding and errors: claims --------------------- *)

\* C23 as stated: an attrib with a buffer, after any uniform, matrix and
\* attrib calls, ends with bindBuffer, enableVertexAttribArray and
\* vertexAttribPointer (FLOAT, the stride or 0, offset 0), in that order,
\* the last two at the index gl.getAttribLocation reports for the name.
C23_AttribAtReportedIndex ==
    (op.name = "attrib" /\ op.value # 0) =>
        LET this == programs[op.self]
            index == GlGetAttribLocation(this.program, op.var)
            n == Len(calls)
        IN /\ n >= 3
           /\ calls[n - 2] = <<"bindBuffer", buffers[op.value].target,
                               buffers[op.value].buffer>>
           /\ calls[n - 1] = <<"enableVertexAttribArray", index>>
           /\ calls[n] = <<"vertexAttribPointer", index, op.size, "FLOAT",
                           FALSE,
                           IF op.stride = <<>> THEN 0 ELSE op.stride[1], 0>>

\* C24: after a bind, attach or attachDepth on any Framebuffer the
\* framebuffer bound to FRAMEBUFFER is that Framebuffer's handle (null for
\* one wrapping the default), and after an unbind it is the default.
C24_LastBindWins ==
    /\ (op.name \in {"bind", "attach", "attachDepth"}) =>
          /\ gl.framebuffer = framebuffers[op.self].framebuffer
          /\ calls[1] = <<"bindFramebuffer", "FRAMEBUFFER",
                          framebuffers[op.self].framebuffer>>
    /\ op.name = "unbind" => gl.framebuffer = 0

\* C24 witness: a bind on a Framebuffer wrapping the default while another
\* Framebuffer's handle, which has a depth renderbuffer, is not bound any
\* more.
C24_Witness ==
    /\ op.name = "bind"
    /\ framebuffers[op.self].framebuffer = 0
    /\ gl.framebuffer = 0
    /\ \E f \in 1 .. Len(framebuffers) :
          framebuffers[f].framebuffer # 0 /\ framebuffers[f].renderbuffer # 0

\* C25 as stated: whenever draw issues drawArrays or drawElements, the
\* program in use is the handle of the Program draw was called on.
C25_DrawWithThisProgram ==
    op.name = "draw" => gl.program = programs[op.self].program

\* C28: a draw made while the error flag is set throws, whether or not its
\* own draw call raises an error; and an operation other than draw calls
\* no getError and leaves a set error flag as it is.
C28_StaleErrorFailsDraw ==
    /\ [](op.name = "draw" /\ op.pending # "NO_ERROR"
            => result = Thrown("WebGL rendering error"))
    /\ [][op'.name # "draw" =>
            /\ \A k \in 1 .. Len(calls') : calls'[k][1] # "getError"
            /\ gl.error # "NO_ERROR" => gl'.error = gl.error]_vars

\* C28 witness: a uniform upload to a Program that is not in use has set
\* the error flag, and a draw the context accepts throws.
C28_Witness ==
    /\ op.name = "draw"
    /\ op.pending = "INVALID_OPERATION"
    /\ GlDrawError(gl.program, op.mode, op.count, DrawIndexed(op.type),
                   op.type) = "NO_ERROR"
    /\ result = Thrown("WebGL rendering error")

\* C26: every update of a Buffer issues bindBuffer with the Buffer's own
\* target and handle and then its one upload call, so that the upload is
\* made while that handle is bound to that target; a reallocation gives
\* the Buffer's own data store its size and no update touches the data
\* store of another buffer.
C26_UpdateBindsOwnBuffer ==
    /\ [](op.name = "update" =>
            LET this == buffers[op.self]
            IN /\ Len(calls) = 2
               /\ calls[1] = <<"bindBuffer", this.target, this.buffer>>
               /\ calls[2][1] \in {"bufferData", "bufferSubData"}
               /\ calls[2][2] = this.target
               /\ glBound[this.target] = this.buffer
               /\ calls[2][1] = "bufferData" =>
                     glStore[this.buffer].size
                       = ByteLength(UpdateData(op.data)))
    /\ [][op'.name = "update" =>
            \A h \in 1 .. Len(glStore) :
                h # buffers'[op'.self].buffer => glStore'[h] = glStore[h]]_vars

\* C26 witness: a reallocating update of a Buffer while another Buffer's
\* handle was bound to their common target.
C26_Witness ==
    /\ op.name = "update"
    /\ op.bound \notin {0, buffers[op.self].buffer}
    /\ calls[2][1] = "bufferData"
    /\ glBound[buffers[op.self].target] = buffers[op.self].buffer

\* C27: whenever an update issues bufferSubData with data of byte length
\* s, the data store of the Buffer's handle has been allocated with
\* exactly s bytes; and a first update, zero-length data included,
\* reallocates.
C27_PartialUpdateFitsStore ==
    op.name = "update" =>
        LET this == buffers[op.self]
            s == ByteLength(UpdateData(op.data))
        IN /\ calls[2][1] = "bufferSubData" =>
                 /\ glStore[this.buffer].size # UnsetSize
                 /\ glStore[this.buffer].size = s
                 /\ calls[2] = <<"bufferSubData", this.target, 0,
                                 UpdateData(op.data)>>
           /\ op.size = UnsetSize => calls[2][1] = "bufferData"

\* C27 witness: a partial update of a Buffer that was reallocated twice,
\* the data of the size of the second reallocation.
C27_Witness ==
    /\ op.name = "update"
    /\ calls[2][1] = "bufferSubData"
    /\ hist[op.self].nData = 2
    /\ glStore[buffers[op.self].buffer].size
         = ByteLength(UpdateData(op.data))

\* C29: a uniform call that throws the invalid-uniform-value error on a
\* name the cache did not hold has issued exactly one getUniformLocation
\* for it and no uniform entry point, and the cache holds what that query
\* returned under the name.
C29_FailedUniformFillsCache ==
    (op.name = "uniform" /\ result = "InvalidUniformValue"
       /\ op.cached = Undefined) =>
        LET this == programs[op.self]
        IN /\ calls = << <<"getUniformLocation", this.program, op.var>> >>
           /\ this.vars[op.var] # Undefined
           /\ this.vars[op.var] = GlGetUniformLocation(this.program, op.var)
           /\ this.probe[op.var].queries = 1

\* C29 witness: uniform("tint", {}) as the first call with that name has
\* thrown and left the location of tint in the cache.
C29_Witness ==
    /\ op.name = "uniform"
    /\ op.var = "tint"
    /\ op.value.kind = "object"
    /\ op.cached = Undefined
    /\ result = "InvalidUniformValue"
    /\ programs[op.self].vars["tint"] = Location(programs[op.self].program)

(* ----------------------- the two copies: claims ----------------------- *)

\* C30 as stated, for Texture.set: with the same Texture and the same
\* arguments the monolithic and the modular copy issue the same context
\* calls after the bind.
C30_CopiesIssueSameCalls ==
    op.name = "set" =>
        SetUploads("monolithic", textures[op.self], op.source, op.width,
                   op.height)
          = SetUploads("modular", textures[op.self], op.source, op.width,
                       op.height)

====
